---- MODULE Spec2Model ----
(***************************************************************************)
(* A model of the context-assembly core of the analytics assistant:       *)
(*   graphdb_utils.py   the property graph (build, search, load, save)    *)
(*   cache_utils.py     the keyed cache around the generation call        *)
(*   rag_pipeline.py    context selection and the cached synthesizer      *)
(*   metadata_extractor.py  the metadata extraction run and the documents *)
(*   refresh_metadata.py    extraction, documents and the vector index     *)
(*                                                                         *)
(* Strings of the program are sequences of one-character strings, so that *)
(* joining, lower-casing and substring search are computed, not assumed.  *)
(***************************************************************************)
EXTENDS Integers, Sequences, FiniteSets, TLC

VARIABLES
    g,          \* GraphDB.g: the in-memory networkx DiGraph
    graphFile,  \* the file at app_config.graph_path
    savedGraph, \* history: the graph held when graphFile was last written by save_local
    ret,        \* history: the last GraphDB call, its arguments and its result
    now,        \* time.time(), in seconds
    cache,      \* cache_utils._cache: key -> [value, expire_time]
    vecHits,    \* how many documents the vector index holds for a query
    call,       \* per caller of generate_sql_and_insight: its position and locals
    lastSet,    \* history: the caller whose _cache.set ran last, 0 before any
    keyIn,      \* a pair of key_parts tuples given to cached_call
    keyOut,     \* the pair of keys derived from keyIn, <<>> before derivation
    run,        \* per process running extract_metadata: its position and locals
    snapFile,   \* the file ./data/metadata_latest.json
    index,      \* the Chroma collection "metadata_docs": id -> document text
    upserted,   \* history: id -> the text it was last given to an upsert call with
    upRet,      \* history: the last upsert_docs_to_chroma call and its result
    docsFile,   \* the file ./data/metadata_docs.json
    docsRet,    \* history: the last save_metadata_docs call and its result
    refresh     \* per process running refresh_metadata.run: its position and locals

graphVars == <<g, graphFile, savedGraph, ret>>
synthVars == <<now, cache, vecHits, call, lastSet>>
keyVars == <<keyIn, keyOut>>
extractVars == <<run, snapFile>>
corpusVars == <<index, upserted, upRet, docsFile, docsRet, refresh>>

-----------------------------------------------------------------------------
(* Values and strings *)

\* Python's None. A one-element sequence whose element is no character.
None == <<"None">>

\* Python truthiness of a field value: None and "" are falsy.
Falsy(v) == v = None \/ v = <<>>

Dot == <<".">>

\* str.lower() on one character of the alphabet used by the inputs.
LowerChar(c) ==
    CASE c = "A" -> "a"
      [] c = "B" -> "b"
      [] c = "C" -> "c"
      [] c = "T" -> "t"
      [] c = "X" -> "x"
      [] c = "N" -> "n"
      [] OTHER -> c

Lower(s) == [i \in 1..Len(s) |-> LowerChar(s[i])]

\* Python's `needle in hay` on strings.
Contains(hay, needle) ==
    \E i \in 0..(Len(hay) - Len(needle)) :
        SubSeq(hay, i + 1, i + Len(needle)) = needle

\* {**a, **b}: the keys of both, b's value where both have the key.
Merge(a, b) ==
    [k \in (DOMAIN a) \cup (DOMAIN b) |-> IF k \in DOMAIN b THEN b[k] ELSE a[k]]

\* key.upper() on the field names the code looks up.
UpperKey(k) ==
    CASE k = "database_name" -> "DATABASE_NAME"
      [] k = "schema_name" -> "SCHEMA_NAME"
      [] k = "table_name" -> "TABLE_NAME"
      [] k = "column_name" -> "COLUMN_NAME"
      [] k = "data_type" -> "DATA_TYPE"
      [] k = "row_count" -> "ROW_COUNT"
      [] k = "created" -> "CREATED"
      [] k = "last_altered" -> "LAST_ALTERED"
      [] k = "is_nullable" -> "IS_NULLABLE"
      [] k = "execution_status" -> "EXECUTION_STATUS"
      [] k = "total_elapsed_time" -> "TOTAL_ELAPSED_TIME"
      [] k = "query_text" -> "QUERY_TEXT"
      [] OTHER -> k

\* graphdb_utils._get: row.get(key, row.get(key.upper())).
Get(row, key) ==
    IF key \in DOMAIN row THEN row[key]
    ELSE IF UpperKey(key) \in DOMAIN row THEN row[UpperKey(key)]
    ELSE None

-----------------------------------------------------------------------------
(* The graph: nodes in insertion order with their attribute dicts, and the *)
(* edges, one per (source, target) pair, with their type.                  *)

EmptyGraph == [nodes |-> <<>>, edges |-> {}]

NodeIds(G) == {G.nodes[i].id : i \in 1..Len(G.nodes)}

NodeData(G, n) == G.nodes[CHOOSE i \in 1..Len(G.nodes) : G.nodes[i].id = n].data

\* DiGraph.add_node(n, **attrs): a new node is appended; an existing node
\* keeps its place and has attrs merged into its dict.
AddNode(G, n, attrs) ==
    IF n \in NodeIds(G)
    THEN [G EXCEPT !.nodes =
            [i \in 1..Len(G.nodes) |->
                IF G.nodes[i].id = n
                THEN [id |-> n, data |-> Merge(G.nodes[i].data, attrs)]
                ELSE G.nodes[i]]]
    ELSE [G EXCEPT !.nodes = Append(@, [id |-> n, data |-> attrs])]

\* DiGraph.add_edge(u, v, type=t): endpoints that are not nodes yet are
\* added with an empty attribute dict; an existing (u, v) edge is updated.
AddEdge(G, u, v, t) ==
    LET G1 == AddNode(G, u, <<>>)
        G2 == AddNode(G1, v, <<>>)
    IN  [G2 EXCEPT !.edges =
            {e \in @ : ~(e.src = u /\ e.dst = v)} \cup {[src |-> u, dst |-> v, type |-> t]}]

\* build_from_metadata without its self.g.clear().
ClearGraph_skipped(G) == G

\* DiGraph.clear()
ClearGraph(G) == EmptyGraph

\* One iteration of the tables loop of build_from_metadata.
AddTableRow(G, t) ==
    LET db == Get(t, "database_name")
        schema == Get(t, "schema_name")
        table == Get(t, "table_name")
        schema_id == db \o Dot \o schema
        table_id == db \o Dot \o schema \o Dot \o table
    IN  IF Falsy(db) \/ Falsy(schema) \/ Falsy(table) THEN G
        ELSE LET G1 == AddNode(G, db, [label |-> "Database", name |-> db])
                 G2 == AddNode(G1, schema_id, [label |-> "Schema", name |-> schema])
                 G3 == AddNode(G2, table_id,
                               [label |-> "Table", name |-> table,
                                row_count |-> Get(t, "row_count")])
                 G4 == AddEdge(G3, db, schema_id, "CONTAINS")
             IN  AddEdge(G4, schema_id, table_id, "CONTAINS")

\* One iteration of the columns loop of build_from_metadata.
AddColumnRow(G, c) ==
    LET db == Get(c, "database_name")
        schema == Get(c, "schema_name")
        table == Get(c, "table_name")
        column == Get(c, "column_name")
        data_type == Get(c, "data_type")
        table_id == db \o Dot \o schema \o Dot \o table
        col_id == table_id \o Dot \o column
    IN  IF Falsy(db) \/ Falsy(schema) \/ Falsy(table) \/ Falsy(column) THEN G
        ELSE AddEdge(AddNode(G, col_id,
                             [label |-> "Column", name |-> column, data_type |-> data_type]),
                     table_id, col_id, "HAS_COLUMN")

RECURSIVE FoldRows(_, _, _, _)
FoldRows(G, rows, i, isTable) ==
    IF i > Len(rows) THEN G
    ELSE FoldRows(IF isTable THEN AddTableRow(G, rows[i]) ELSE AddColumnRow(G, rows[i]),
                  rows, i + 1, isTable)

\* GraphDB.build_from_metadata(tables, columns) on a graph holding G.
build_from_metadata(G, tables, columns) ==
    FoldRows(FoldRows(ClearGraph(G), tables, 1, TRUE), columns, 1, FALSE)

\* The test of one node in GraphDB.search.
NodeMatches(node, keyword_lower) ==
    LET name == IF "name" \in DOMAIN node.data THEN Lower(node.data.name) ELSE <<>>
    IN  Contains(name, keyword_lower) \/ Contains(Lower(node.id), keyword_lower)

\* The loop of GraphDB.search from node i on: the match is appended first,
\* the length test and the break come after it.
RECURSIVE SearchLoop(_, _, _, _, _)
SearchLoop(nodes, i, keyword_lower, max_results, matches) ==
    IF i > Len(nodes) THEN matches
    ELSE LET m2 == IF NodeMatches(nodes[i], keyword_lower)
                   THEN Append(matches, nodes[i])
                   ELSE matches
         IN  IF Len(m2) >= max_results THEN m2
             ELSE SearchLoop(nodes, i + 1, keyword_lower, max_results, m2)

\* GraphDB.search(keyword, max_results)
search(G, keyword, max_results) ==
    SearchLoop(G.nodes, 1, Lower(keyword), max_results, <<>>)

-----------------------------------------------------------------------------
(* Persistence: the node-link representation written by save_local. *)

\* nx.node_link_data(G): each node's dict with its id added, each edge's
\* dict with source and target added.
node_link_data(G) ==
    [directed |-> TRUE,
     multigraph |-> FALSE,
     nodes |-> [i \in 1..Len(G.nodes) |-> Merge(G.nodes[i].data, [id |-> G.nodes[i].id])],
     links |-> {Merge([type |-> e.type], [source |-> e.src, target |-> e.dst]) : e \in G.edges}]

Without(d, key) == [k \in (DOMAIN d) \ {key} |-> d[k]]

RECURSIVE ParseNodes(_, _, _)
ParseNodes(G, nodes, i) ==
    IF i > Len(nodes) THEN G
    ELSE ParseNodes(AddNode(G, nodes[i].id, Without(nodes[i], "id")), nodes, i + 1)

RECURSIVE ParseLinks(_, _)
ParseLinks(G, links) ==
    IF links = {} THEN G
    ELSE LET d == CHOOSE x \in links : TRUE
         IN  ParseLinks(AddEdge(G, d.source, d.target, d.type), links \ {d})

\* nx.node_link_graph(raw) on a well-formed node-link document.
node_link_graph(raw) == ParseLinks(ParseNodes(EmptyGraph, raw.nodes, 1), raw.links)

MissingFile == [kind |-> "missing"]
CorruptFile == [kind |-> "corrupt"]
JsonFile(data) == [kind |-> "json", data |-> data]

\* GraphDB.load_local on a graph holding G: nothing happens when the path
\* does not exist; a file that json.load or node_link_graph rejects gives
\* the empty graph.
load_local(G, file) ==
    IF file.kind = "missing" THEN G
    ELSE IF file.kind = "corrupt" THEN EmptyGraph
    ELSE node_link_graph(file.data)

\* GraphDB.save_local: the file after a successful write.
save_local(G) == JsonFile(node_link_data(G))

-----------------------------------------------------------------------------
(* Inputs of the graph operations *)

MaxRows == 2
MaxResults == 2

\* Rows as the tables query returns them: lower-case field names, the
\* upper-case names the warehouse gives unquoted aliases, a row with no schema.
TableRowLower ==
    [database_name |-> <<"A">>, schema_name |-> <<"B">>, table_name |-> <<"T">>,
     row_count |-> <<"1", "0">>]
TableRowUpper ==
    [DATABASE_NAME |-> <<"A">>, SCHEMA_NAME |-> <<"B">>, TABLE_NAME |-> <<"T">>,
     ROW_COUNT |-> <<"7">>]
TableRowNoSchema ==
    [database_name |-> <<"A">>, table_name |-> <<"X">>, row_count |-> None]

TableRows == {TableRowLower, TableRowUpper, TableRowNoSchema}

\* Rows of the columns query: a column of table A.B.T, a column of a table
\* A.B.X that no table row names, a row with an empty column name.
ColumnRowLower ==
    [database_name |-> <<"A">>, schema_name |-> <<"B">>, table_name |-> <<"T">>,
     column_name |-> <<"C">>, data_type |-> <<"N">>]
ColumnRowUpper ==
    [DATABASE_NAME |-> <<"A">>, SCHEMA_NAME |-> <<"B">>, TABLE_NAME |-> <<"X">>,
     COLUMN_NAME |-> <<"c">>, DATA_TYPE |-> <<"N">>]
ColumnRowNoName ==
    [database_name |-> <<"A">>, schema_name |-> <<"B">>, table_name |-> <<"T">>,
     column_name |-> <<>>, data_type |-> <<"N">>]

ColumnRows == {ColumnRowLower, ColumnRowUpper, ColumnRowNoName}

SeqsUpTo(S, n) == UNION {[1..k -> S] : k \in 0..n}

\* The (tables, columns) arguments tried: at most MaxRows rows in all.
BuildInputs ==
    {tc \in SeqsUpTo(TableRows, MaxRows) \X SeqsUpTo(ColumnRows, MaxRows) :
        Len(tc[1]) + Len(tc[2]) <= MaxRows}

Keywords == { <<>>, <<"T">>, <<"a", ".", "B">>, <<"c">>, <<"z">> }

-----------------------------------------------------------------------------
(* The GraphDB object: one action per method *)

InitGraph ==
    /\ g = EmptyGraph
    /\ graphFile = MissingFile
    /\ savedGraph = EmptyGraph
    /\ ret = [op |-> "init"]

\* The graph operations leave the cache, the callers and the keys alone.
OnlyGraph == UNCHANGED <<synthVars, keyVars, extractVars, corpusVars>>

\* GraphDB.__init__
GNew ==
    /\ g' = EmptyGraph
    /\ ret' = [op |-> "new"]
    /\ UNCHANGED <<graphFile, savedGraph>>
    /\ OnlyGraph

GLoad ==
    /\ g' = load_local(g, graphFile)
    /\ ret' = [op |-> "load", raised |-> FALSE]
    /\ UNCHANGED <<graphFile, savedGraph>>
    /\ OnlyGraph

GSave ==
    /\ graphFile' = save_local(g)
    /\ savedGraph' = g
    /\ ret' = [op |-> "save", raised |-> FALSE]
    /\ UNCHANGED g
    /\ OnlyGraph

\* save_local raising: makedirs or open failed (the file is as it was) or
\* the write stopped after open had truncated the file.
GSaveFails ==
    /\ graphFile' \in {graphFile, CorruptFile}
    /\ savedGraph' = IF graphFile' = graphFile THEN savedGraph ELSE EmptyGraph
    /\ ret' = [op |-> "save", raised |-> TRUE]
    /\ UNCHANGED g
    /\ OnlyGraph

\* The file is removed from outside the program.
EnvRemoveFile ==
    /\ graphFile.kind # "missing"
    /\ graphFile' = MissingFile
    /\ savedGraph' = EmptyGraph
    /\ ret' = [op |-> "env"]
    /\ UNCHANGED g
    /\ OnlyGraph

GBuild ==
    \E tc \in BuildInputs :
        /\ g' = build_from_metadata(g, tc[1], tc[2])
        /\ ret' = [op |-> "build", tables |-> tc[1], columns |-> tc[2],
                   pre |-> IF g = EmptyGraph THEN "empty"
                           ELSE IF g = g' THEN "same" ELSE "other"]
        /\ UNCHANGED <<graphFile, savedGraph>>
        /\ OnlyGraph

GSearch ==
    \E kw \in Keywords, mr \in 0..MaxResults :
        /\ ret' = [op |-> "search", keyword |-> kw, max_results |-> mr,
                   matches |-> search(g, kw, mr)]
        /\ UNCHANGED <<g, graphFile, savedGraph>>
        /\ OnlyGraph

IdleCallers == [c \in {1, 2} |-> [pc |-> "idle"]]

SynthIdle ==
    /\ now = 0
    /\ cache = <<>>
    /\ vecHits = 0
    /\ call = IdleCallers
    /\ lastSet = 0

KeyIdle ==
    /\ keyIn = <<>>
    /\ keyOut = <<>>

ExtractIdle ==
    /\ run = [p \in {1, 2} |-> [pc |-> "idle"]]
    /\ snapFile = MissingFile

CorpusIdle ==
    /\ index = <<>>
    /\ upserted = <<>>
    /\ upRet = [op |-> "init"]
    /\ docsFile = MissingFile
    /\ docsRet = [op |-> "init"]
    /\ refresh = [p \in {1, 2} |-> [pc |-> "idle"]]

NextGraph ==
    \/ GNew
    \/ GLoad
    \/ GSave
    \/ GSaveFails
    \/ EnvRemoveFile
    \/ GBuild
    \/ GSearch

vars == <<graphVars, synthVars, keyVars, extractVars, corpusVars>>

InitSpecGraph == InitGraph /\ SynthIdle /\ KeyIdle /\ ExtractIdle /\ CorpusIdle

SpecGraph == InitSpecGraph /\ [][NextGraph]_vars

-----------------------------------------------------------------------------
(* Claims about the graph *)

\* C6: after build(tables, columns) the graph is the one the arguments give
\* on an empty graph, whatever it held before, and building again from the
\* same arguments leaves it as it is.
C6_BuildDependsOnArgumentsOnly ==
    ret.op = "build" =>
        /\ g = build_from_metadata(EmptyGraph, ret.tables, ret.columns)
        /\ build_from_metadata(g, ret.tables, ret.columns) = g

\* A build has run on a graph that held nodes, and left a different graph
\* that holds nodes too.
C6_Witness ==
    /\ ret.op = "build"
    /\ ret.pre = "other"
    /\ Len(g.nodes) > 0

Labels == {"Database", "Schema", "Table", "Column"}

HasLabel(G, n, l) ==
    /\ n \in NodeIds(G)
    /\ "label" \in DOMAIN NodeData(G, n)
    /\ NodeData(G, n).label = l

NodesWellFormed(G) ==
    \A i \in 1..Len(G.nodes) :
        /\ "label" \in DOMAIN G.nodes[i].data
        /\ G.nodes[i].data.label \in Labels
        /\ "name" \in DOMAIN G.nodes[i].data

EdgesWellFormed(G) ==
    \A e \in G.edges :
        /\ e.src \in NodeIds(G)
        /\ e.dst \in NodeIds(G)
        /\ \/ e.type = "CONTAINS" /\ HasLabel(G, e.src, "Database") /\ HasLabel(G, e.dst, "Schema")
           \/ e.type = "CONTAINS" /\ HasLabel(G, e.src, "Schema") /\ HasLabel(G, e.dst, "Table")
           \/ e.type = "HAS_COLUMN" /\ HasLabel(G, e.src, "Table") /\ HasLabel(G, e.dst, "Column")

\* C7: after build every node carries a label among Database, Schema, Table,
\* Column and a name, and every edge joins two present nodes as
\* Database-CONTAINS-Schema, Schema-CONTAINS-Table or Table-HAS_COLUMN-Column.
C7_BuildGivesTypedHierarchy ==
    ret.op = "build" => NodesWellFormed(g) /\ EdgesWellFormed(g)

\* The nodes that match the keyword, in iteration order.
AllMatches(G, keyword) ==
    SelectSeq(G.nodes, LAMBDA n : NodeMatches(n, Lower(keyword)))

Min(a, b) == IF a <= b THEN a ELSE b

\* C8: search returns the first min(max_results, m) matching nodes, in the
\* graph's iteration order, m being the number of matching nodes.
C8_SearchReturnsFirstMatches ==
    ret.op = "search" =>
        LET all == AllMatches(g, ret.keyword)
        IN  /\ Len(ret.matches) <= ret.max_results
            /\ ret.matches = SubSeq(all, 1, Min(ret.max_results, Len(all)))

\* C9: load never raises; with the file missing or corrupt the graph is empty
\* after load, whatever it held before; with a file written by save the graph
\* is the saved one.
C9_LoadGivesFileOrEmpty ==
    ret.op = "load" =>
        /\ ~ret.raised
        /\ graphFile.kind \in {"missing", "corrupt"} => g = EmptyGraph
        /\ graphFile.kind = "json" => g = savedGraph

-----------------------------------------------------------------------------
(* cache_utils: key derivation and the diskcache store *)

\* "|".join(key_parts)
RECURSIVE JoinPipe(_)
JoinPipe(parts) ==
    IF Len(parts) = 0 THEN <<>>
    ELSE IF Len(parts) = 1 THEN parts[1]
    ELSE parts[1] \o <<"|">> \o JoinPipe(Tail(parts))

\* _hash_key: the SHA-256 digest, taken as collision-free: the digest of a
\* string is a value that determines the string.
hash_key(key_raw) == [sha256 |-> key_raw]

\* The key cached_call derives from key_parts.
CacheKey(key_parts) == hash_key(JoinPipe(key_parts))

\* A membership test that never finds the key.
CacheContains_never(C, key, t) == FALSE

\* A membership test that ignores the expiry.
CacheContains_noexpiry(C, key, t) == key \in DOMAIN C

\* `key in _cache` at time t: the row exists and its expire_time is later.
CacheContains(C, key, t) == key \in DOMAIN C /\ C[key].expire_time > t

\* `_cache[key]` at time t: the value, or KeyError when the row is absent
\* or expired.
CacheGet(C, key, t) ==
    IF key \in DOMAIN C /\ C[key].expire_time > t
    THEN [found |-> TRUE, value |-> C[key].value]
    ELSE [found |-> FALSE]

\* A set that leaves an entry the cache already holds as it is.
CacheSet_keepfirst(C, key, value, t, expire) ==
    [k \in (DOMAIN C) \cup {key} |->
        IF k = key /\ k \notin DOMAIN C
        THEN [value |-> value, expire_time |-> t + expire] ELSE C[k]]

\* _cache.set(key, value, expire=expire) at time t.
CacheSet(C, key, value, t, expire) ==
    [k \in (DOMAIN C) \cup {key} |->
        IF k = key THEN [value |-> value, expire_time |-> t + expire] ELSE C[k]]

-----------------------------------------------------------------------------
(* rag_pipeline: context selection and the generation call *)

\* app_config.default_top_k
TopK == 8

\* stop_after_attempt(3) on llm_complete
LlmAttempts == 3

\* expire=1800 in generate_sql_and_insight
SynthExpire == 1800

\* the threshold of pick_context
MinVectorHits == 3

\* The first n documents the vector index returns, nearest first.
VectorDocs(n) == [i \in 1..n |-> [kind |-> "vector", rank |-> i]]

\* retrieve_from_graph: a fresh GraphDB, load_local, search, one snippet
\* per match.
retrieve_from_graph(file, keyword, max_results) ==
    LET G == load_local(EmptyGraph, file)
        matches == search(G, keyword, max_results)
    IN  [i \in 1..Len(matches) |->
            [kind |-> "graph", id |-> matches[i].id, props |-> matches[i].data]]

\* pick_context with a wrong threshold test (> instead of >=).
pick_context_strict(vctx, file, question) ==
    IF Len(vctx) > MinVectorHits THEN vctx
    ELSE LET gctx == retrieve_from_graph(file, question, TopK)
         IN  IF gctx # <<>> THEN gctx ELSE vctx

\* pick_context, given what retrieve_context_from_vector returned.
pick_context(vctx, file, question) ==
    IF Len(vctx) >= MinVectorHits THEN vctx
    ELSE LET gctx == retrieve_from_graph(file, question, TopK)
         IN  IF gctx # <<>> THEN gctx ELSE vctx

\* JSON null / Python None inside a result.
Null == "<None>"

\* The responses of the generation call that are tried, by their text.
Responses ==
    { "{\"insight\": \"i\", \"sql\": \"s\", \"chart_type\": \"bar\"}",
      "not json",
      "[1, 2]",
      "{\"insight\": \"i\"}" }

\* json.loads(response) on those texts.
json_loads(text) ==
    CASE text = "{\"insight\": \"i\", \"sql\": \"s\", \"chart_type\": \"bar\"}" ->
            [ok |-> TRUE, mapping |-> TRUE,
             value |-> [insight |-> "i", sql |-> "s", chart_type |-> "bar"]]
      [] text = "{\"insight\": \"i\"}" ->
            [ok |-> TRUE, mapping |-> TRUE, value |-> [insight |-> "i"]]
      [] text = "[1, 2]" ->
            [ok |-> TRUE, mapping |-> FALSE, value |-> <<1, 2>>]
      [] OTHER -> [ok |-> FALSE]

\* The tail of _compute: parse the response, fall back on a parse error,
\* merge the context in. {**data, ...} raises TypeError when data is no dict.
compute_result(response, context_snippets) ==
    LET parsed == json_loads(response)
        data == IF parsed.ok THEN parsed.value
                ELSE [insight |-> response, sql |-> Null, chart_type |-> "table"]
    IN  IF parsed.ok /\ ~parsed.mapping
        THEN [kind |-> "raised", exc |-> "TypeError"]
        ELSE [kind |-> "returned",
              value |-> Merge(data, [context |-> context_snippets])]

-----------------------------------------------------------------------------
(* generate_sql_and_insight(question), one caller c: cached_call's membership *)
(* test, read, _compute (context, generation call with retries, parse) and   *)
(* set are separate steps, and time passes between them.                     *)

MaxHits == 3
TickUnit == 900
MaxTicks == 3

QA == <<"q", "a">>

Questions == { <<"T">>, <<"z">> }

\* The key of generate_sql_and_insight(question): ("qa", question).
SynthKey(question) == CacheKey(<<QA, question>>)

\* The graph that extraction of one table with one column leaves on disk.
SampleGraph == build_from_metadata(EmptyGraph, <<TableRowLower>>, <<ColumnRowLower>>)

NewCall(q) ==
    [pc |-> "test", question |-> q,
     valid |-> FALSE,           \* history: an unexpired entry existed at the test
     stale |-> FALSE,           \* history: an expired entry existed at the test
     vctx |-> <<>>,             \* history: what the vector query returned
     context_snippets |-> <<>>,
     att |-> 0,                 \* attempts of the generation call so far
     sel |-> 0,                 \* history: calls of pick_context
     gen |-> 0,                 \* history: calls of llm_complete
     response |-> "",
     value |-> <<>>,
     setAt |-> 0,               \* history: the time of _cache.set
     out |-> [kind |-> "none"]]

OnlySynth == UNCHANGED <<graphVars, keyVars, extractVars, corpusVars>>

CallStart(c, q) ==
    /\ call[c].pc = "idle"
    /\ call' = [call EXCEPT ![c] = NewCall(q)]
    /\ UNCHANGED <<now, cache, vecHits, lastSet>>
    /\ OnlySynth

\* cache_utils.py line 19: if key in _cache
CacheTest(c) ==
    /\ call[c].pc = "test"
    /\ LET key == SynthKey(call[c].question)
           live == key \in DOMAIN cache /\ now < cache[key].expire_time
       IN  call' = [call EXCEPT
                ![c].pc = IF CacheContains(cache, key, now) THEN "read" ELSE "select",
                ![c].valid = live,
                ![c].stale = key \in DOMAIN cache /\ ~live]
    /\ UNCHANGED <<now, cache, vecHits, lastSet>>
    /\ OnlySynth

\* cache_utils.py line 20: return _cache[key]
CacheRead(c) ==
    /\ call[c].pc = "read"
    /\ LET r == CacheGet(cache, SynthKey(call[c].question), now)
       IN  call' = [call EXCEPT
                ![c].pc = "done",
                ![c].out = IF r.found
                           THEN [kind |-> "returned", value |-> r.value]
                           ELSE [kind |-> "raised", exc |-> "KeyError"]]
    /\ UNCHANGED <<now, cache, vecHits, lastSet>>
    /\ OnlySynth

\* _compute, line 126: pick_context(question), the vector query answering.
SelectContext(c) ==
    /\ call[c].pc = "select"
    /\ LET vctx == VectorDocs(Min(vecHits, TopK))
       IN  call' = [call EXCEPT
                ![c].pc = "llm",
                ![c].sel = @ + 1,
                ![c].vctx = vctx,
                ![c].context_snippets = pick_context(vctx, graphFile, call[c].question)]
    /\ UNCHANGED <<now, cache, vecHits, lastSet>>
    /\ OnlySynth

\* pick_context(question), collection.query raising: nothing catches it.
VectorQueryFails(c) ==
    /\ call[c].pc = "select"
    /\ call' = [call EXCEPT
            ![c].pc = "done",
            ![c].sel = @ + 1,
            ![c].out = [kind |-> "raised", exc |-> "QueryError"]]
    /\ UNCHANGED <<now, cache, vecHits, lastSet>>
    /\ OnlySynth

\* llm_complete: an attempt of the generation call answers with text r;
\* _compute parses it and builds the result.
LlmReturns(c) ==
    \E r \in Responses :
        /\ call[c].pc = "llm"
        /\ LET res == compute_result(r, call[c].context_snippets)
           IN  call' = [call EXCEPT
                    ![c].att = @ + 1,
                    ![c].gen = 1,
                    ![c].response = r,
                    ![c].pc = IF res.kind = "raised" THEN "done" ELSE "set",
                    ![c].value = IF res.kind = "raised" THEN <<>> ELSE res.value,
                    ![c].out = IF res.kind = "raised" THEN res ELSE @]
        /\ UNCHANGED <<now, cache, vecHits, lastSet>>
        /\ OnlySynth

\* A retry that stops one attempt late.
LlmAttemptFails_one_more(c) ==
    /\ call[c].pc = "llm"
    /\ call' = [call EXCEPT
            ![c].att = @ + 1,
            ![c].gen = 1,
            ![c].pc = IF call[c].att + 1 > LlmAttempts THEN "done" ELSE "llm",
            ![c].out = IF call[c].att + 1 > LlmAttempts
                       THEN [kind |-> "raised", exc |-> "RetryError"]
                       ELSE @]
    /\ UNCHANGED <<now, cache, vecHits, lastSet>>
    /\ OnlySynth

\* llm_complete: an attempt raises; tenacity retries until the third attempt
\* has failed and then raises RetryError.
LlmAttemptFails(c) ==
    /\ call[c].pc = "llm"
    /\ call' = [call EXCEPT
            ![c].att = @ + 1,
            ![c].gen = 1,
            ![c].pc = IF call[c].att + 1 >= LlmAttempts THEN "done" ELSE "llm",
            ![c].out = IF call[c].att + 1 >= LlmAttempts
                       THEN [kind |-> "raised", exc |-> "RetryError"]
                       ELSE @]
    /\ UNCHANGED <<now, cache, vecHits, lastSet>>
    /\ OnlySynth

\* cache_utils.py lines 22-23: _cache.set(key, value, expire); return value
CacheStore(c) ==
    /\ call[c].pc = "set"
    /\ cache' = CacheSet(cache, SynthKey(call[c].question), call[c].value, now, SynthExpire)
    /\ call' = [call EXCEPT
            ![c].pc = "done",
            ![c].setAt = now,
            ![c].out = [kind |-> "returned", value |-> call[c].value]]
    /\ lastSet' = c
    /\ UNCHANGED <<now, vecHits>>
    /\ OnlySynth

\* The caller takes the result; it may call again.
CallReturn(c) ==
    /\ call[c].pc = "done"
    /\ call' = [call EXCEPT ![c] = [pc |-> "idle"]]
    /\ UNCHANGED <<now, cache, vecHits, lastSet>>
    /\ OnlySynth

Tick ==
    /\ now + TickUnit <= MaxTicks * TickUnit
    /\ now' = now + TickUnit
    /\ UNCHANGED <<cache, vecHits, call, lastSet>>
    /\ OnlySynth

InitSynth ==
    /\ g = EmptyGraph
    /\ graphFile \in {MissingFile, save_local(SampleGraph)}
    /\ savedGraph = EmptyGraph
    /\ ret = [op |-> "init"]
    /\ now = 0
    /\ cache = <<>>
    /\ vecHits \in 0..MaxHits
    /\ call = IdleCallers
    /\ lastSet = 0
    /\ KeyIdle
    /\ ExtractIdle
    /\ CorpusIdle

\* Calls that do not overlap: one caller, one call at a time.
NextSynth ==
    \/ \E q \in Questions : CallStart(1, q)
    \/ CacheTest(1)
    \/ CacheRead(1)
    \/ SelectContext(1)
    \/ VectorQueryFails(1)
    \/ LlmReturns(1)
    \/ LlmAttemptFails(1)
    \/ CacheStore(1)
    \/ CallReturn(1)
    \/ Tick

SpecSynth == InitSynth /\ [][NextSynth]_vars

-----------------------------------------------------------------------------
(* Claims about context selection and the cached synthesizer *)

Callers == {1, 2}

\* The caller's _compute has chosen its context.
HasSelected(c) ==
    \/ call[c].pc \in {"llm", "set"}
    \/ call[c].pc = "done" /\ call[c].gen = 1

\* C1: pick_context returns the vector results when there are 3 or more;
\* with fewer, the graph search results when there are any, and otherwise
\* the vector results as they came.
C1_SelectFollowsFallbackPolicy ==
    \A c \in Callers :
        HasSelected(c) =>
            LET v == call[c].vctx
                gr == retrieve_from_graph(graphFile, call[c].question, 8)
                ctx == call[c].context_snippets
            IN  /\ (Len(v) >= 3) => (ctx = v)
                /\ (Len(v) < 3 /\ gr # <<>>) => (ctx = gr)
                /\ (Len(v) < 3 /\ gr = <<>>) => (ctx = v)

\* Two vector hits and no graph match: the two hits are the context.
C1_Witness ==
    \E c \in Callers :
        /\ HasSelected(c)
        /\ Len(call[c].vctx) = 2
        /\ retrieve_from_graph(graphFile, call[c].question, 8) = <<>>
        /\ call[c].context_snippets = call[c].vctx

\* An unexpired entry for the caller's question is in the cache now.
LiveEntry(c) ==
    LET key == SynthKey(call[c].question)
    IN  key \in DOMAIN cache /\ now < cache[key].expire_time

\* C2: with calls that do not overlap, no context selection or generation
\* call runs for a question while an unexpired entry for it exists, and a
\* call made and finished within the entry's life returns the stored value
\* having called neither.
C2_AtMostOneComputationPerWindow ==
    \A c \in Callers :
        /\ (call[c].pc \in {"select", "llm", "set"}) => ~LiveEntry(c)
        /\ (call[c].pc = "done" /\ call[c].valid /\ LiveEntry(c)) =>
                /\ call[c].out =
                     [kind |-> "returned", value |-> cache[SynthKey(call[c].question)].value]
                /\ call[c].sel = 0
                /\ call[c].gen = 0

\* A call was answered from the cache, some time after the entry was made.
C2_Witness ==
    \E c \in Callers :
        /\ call[c].pc = "done"
        /\ call[c].valid
        /\ LiveEntry(c)
        /\ call[c].out.kind = "returned"
        /\ "insight" \in DOMAIN call[c].out.value
        /\ now > 0

\* A finished call that found no unexpired entry has recomputed: it raised
\* out of _compute, or it returns the value it computed and the cache holds
\* that value for 1800 seconds from the set.
RecomputedWhenNoLiveEntry(c) ==
    (call[c].pc = "done" /\ ~call[c].valid) =>
        /\ call[c].sel = 1
        /\ \/ /\ call[c].out.kind = "raised"
              /\ call[c].out.exc \in {"QueryError", "RetryError", "TypeError"}
           \/ /\ call[c].out.kind = "returned"
              /\ call[c].gen = 1
              /\ call[c].out.value = call[c].value
              /\ SynthKey(call[c].question) \in DOMAIN cache
              /\ cache[SynthKey(call[c].question)] =
                    [value |-> call[c].value, expire_time |-> call[c].setAt + 1800]

\* A step leaves every entry that is unexpired after it as it was.
EntriesLiveUntilExpiry ==
    \A k \in DOMAIN cache :
        (now' < cache[k].expire_time) => (k \in DOMAIN cache' /\ cache'[k] = cache[k])

\* C3: an entry counts as absent from 1800 seconds after its set: a call made
\* then recomputes and does not return the expired value; and no step removes
\* or changes an entry before it expires.
C3_ExpiredEntryIsRecomputed ==
    [][(\A c \in Callers : RecomputedWhenNoLiveEntry(c))' /\ EntriesLiveUntilExpiry]_vars

\* A call found an expired entry and returned a recomputed value.
C3_Witness ==
    \E c \in Callers :
        /\ call[c].pc = "done"
        /\ call[c].stale
        /\ call[c].out.kind = "returned"
        /\ call[c].gen = 1
        /\ call[c].setAt >= 1800

\* The response parses as an object with the keys insight, sql, chart_type.
Structured(text) ==
    LET parsed == json_loads(text)
    IN  /\ parsed.ok
        /\ parsed.mapping
        /\ {"insight", "sql", "chart_type"} \subseteq DOMAIN parsed.value

\* C5: a response that is not such an object makes synthesize return
\* {insight: the response text, sql: null, chart_type: "table"} with the
\* context, without raising; every result has insight, sql, chart_type and
\* context.
C5_MalformedResponseDegrades ==
    \A c \in Callers :
        /\ (call[c].pc \in {"set", "done"} /\ call[c].response \in Responses
                /\ ~Structured(call[c].response)) =>
                /\ call[c].out.kind # "raised"
                /\ call[c].value =
                     [insight |-> call[c].response, sql |-> Null, chart_type |-> "table",
                      context |-> call[c].context_snippets]
        /\ (call[c].pc = "done" /\ call[c].out.kind = "returned") =>
                {"insight", "sql", "chart_type", "context"} \subseteq DOMAIN call[c].out.value

-----------------------------------------------------------------------------
(* Key derivation on arbitrary key tuples *)

MaxPartLen == 2
MaxParts == 2

KeyChars == {"a", "|"}

KeyTuples == SeqsUpTo(SeqsUpTo(KeyChars, MaxPartLen), MaxParts)

InitKey ==
    /\ InitGraph
    /\ SynthIdle
    /\ keyIn \in KeyTuples \X KeyTuples
    /\ keyOut = <<>>
    /\ ExtractIdle
    /\ CorpusIdle

\* cached_call lines 17-18 on each of the two tuples.
DeriveKeys ==
    /\ keyOut = <<>>
    /\ keyOut' = <<CacheKey(keyIn[1]), CacheKey(keyIn[2])>>
    /\ UNCHANGED <<keyIn, graphVars, synthVars, extractVars, corpusVars>>

NextKey == DeriveKeys

SpecKey == InitKey /\ [][NextKey]_vars

\* C4: equal key tuples derive equal keys and distinct key tuples derive
\* distinct keys.
C4_KeyDerivationInjective ==
    (keyOut # <<>>) => ((keyIn[1] = keyIn[2]) <=> (keyOut[1] = keyOut[2]))

-----------------------------------------------------------------------------
(* metadata_extractor: what the warehouse returns and how rows are made safe *)

\* The keys of QUERIES (and of QUERIES_ACCOUNT), in dict order.
QueryKeys == <<"tables", "views", "columns", "foreign_keys", "indexes", "query_history">>

QueryKeySet == {QueryKeys[i] : i \in 1..Len(QueryKeys)}

\* stop_after_attempt(3) on run_query
QueryAttempts == 3

\* cols[:5] in the statistics phase
StatsPerTable == 5

\* A value the driver returns is a string, None, a Decimal (a sequence that
\* starts with "#Decimal") or a datetime (one that starts with "#datetime").
IsDecimal(v) == v # <<>> /\ v[1] = "#Decimal"
IsDatetime(v) == v # <<>> /\ v[1] = "#datetime"

\* _json_safe: float(value) for a Decimal, value.isoformat() for a datetime.
json_safe(v) ==
    IF IsDecimal(v) THEN Tail(v) \o <<".", "0">>
    ELSE IF IsDatetime(v) THEN Tail(v)
    ELSE v

json_safe_row(r) == [k \in DOMAIN r |-> json_safe(r[k])]

\* _json_safe_records
json_safe_records(records) == [i \in 1..Len(records) |-> json_safe_row(records[i])]

\* json.dump accepts a row: no Decimal and no datetime in it.
RowDumpable(r) == \A k \in DOMAIN r : ~IsDecimal(r[k]) /\ ~IsDatetime(r[k])

\* json.dump(results, f) does not raise TypeError.
Dumpable(results) ==
    \A key \in DOMAIN results :
        \A i \in 1..Len(results[key]) : RowDumpable(results[key][i])

WhTableRow ==
    [DATABASE_NAME |-> <<"A">>, SCHEMA_NAME |-> <<"B">>, TABLE_NAME |-> <<"T">>,
     ROW_COUNT |-> <<"#Decimal", "7">>, CREATED |-> <<"#datetime", "d">>]

\* What a successful query for the key may return.
RowsFor(key) ==
    CASE key = "tables" -> { <<WhTableRow>> }
      [] key = "columns" -> { <<ColumnRowLower>>, <<ColumnRowLower, ColumnRowUpper>> }
      [] key = "views" -> { <<[TABLE_NAME |-> <<"V">>]>> }
      [] key = "foreign_keys" -> { <<[CONSTRAINT_NAME |-> <<"F">>]>> }
      [] key = "indexes" -> { <<[INDEX_NAME |-> <<"X">>]>> }
      [] key = "query_history" ->
            { <<[QUERY_TEXT |-> <<"q">>, START_TIME |-> <<"#datetime", "t">>]>> }

\* The row a statistics query returns.
StatRow == [DISTINCT_COUNT |-> <<"#Decimal", "2">>]

\* c.get(key) or c.get(KEY)
GetOr(row, key) ==
    LET a == IF key \in DOMAIN row THEN row[key] ELSE None
    IN  IF ~Falsy(a) THEN a
        ELSE IF UpperKey(key) \in DOMAIN row THEN row[UpperKey(key)]
        ELSE None

TKeyOf(c) ==
    <<GetOr(c, "database_name"), GetOr(c, "schema_name"), GetOr(c, "table_name")>>

\* The keys of per_table, in the order setdefault created them.
RECURSIVE TKeys(_, _, _)
TKeys(columns, i, acc) ==
    IF i > Len(columns) THEN acc
    ELSE LET c == columns[i]
             known == \E j \in 1..Len(acc) : acc[j] = TKeyOf(c)
         IN  TKeys(columns, i + 1,
                   IF Falsy(GetOr(c, "table_name")) \/ known THEN acc
                   ELSE Append(acc, TKeyOf(c)))

FirstN(seq, n) == SubSeq(seq, 1, Min(n, Len(seq)))

\* The columns a statistics query is issued for: per table the first
\* StatsPerTable column rows, those without a name or a type left out.
RECURSIVE StatTargetsFrom(_, _, _)
StatTargetsFrom(columns, tkeys, i) ==
    IF i > Len(tkeys) THEN <<>>
    ELSE LET cols == SelectSeq(columns,
                        LAMBDA c : ~Falsy(GetOr(c, "table_name")) /\ TKeyOf(c) = tkeys[i])
             asked == SelectSeq(FirstN(cols, StatsPerTable),
                        LAMBDA c : ~Falsy(GetOr(c, "column_name"))
                                   /\ ~Falsy(GetOr(c, "data_type")))
         IN  asked \o StatTargetsFrom(columns, tkeys, i + 1)

StatTargets(columns) == StatTargetsFrom(columns, TKeys(columns, 1, <<>>), 1)

\* The entry appended to stats for column row c and the query's row.
StatEntry(c, row) ==
    Merge([database_name |-> GetOr(c, "database_name"),
           schema_name |-> GetOr(c, "schema_name"),
           table_name |-> GetOr(c, "table_name"),
           column_name |-> GetOr(c, "column_name"),
           data_type |-> GetOr(c, "data_type")],
          json_safe_row(row))

-----------------------------------------------------------------------------
(* extract_metadata(), one process p *)

NewRun ==
    [pc |-> "connect",
     results |-> [tables |-> <<>>, views |-> <<>>, columns |-> <<>>, query_history |-> <<>>],
     qi |-> 1,                  \* the position in QUERIES
     att |-> 0,                 \* attempts of the current run_query so far
     qres |-> [k \in QueryKeySet |-> [st |-> "pending"]],
                                \* history: what each sub-query ended with
     si |-> 1,                  \* the position in the sampled columns
     stats |-> <<>>,
     phase |-> "early",         \* which snapshot write is next
     writes |-> 0,              \* history: snapshot writes completed
     graph |-> "none",          \* history: how the graph stage ended
     clobbered |-> FALSE,       \* history: the early write replaced the final
                                \* snapshot of a refresh that had completed
     exc |-> "none"]

\* After the query at r.qi: the next key, or the early snapshot write.
NextQuery(r) ==
    [r EXCEPT !.qi = @ + 1, !.att = 0,
              !.pc = IF r.qi = Len(QueryKeys) THEN "open" ELSE "query"]

\* Lines 102 and 106: run_query returned rows.
query_returned(r, key, rows) ==
    NextQuery([r EXCEPT !.results = Merge(@, key :> json_safe_records(rows)),
                        !.qres[key] = [st |-> "ok", rows |-> rows]])

\* The loop without its except clause: the RetryError leaves extract_metadata.
query_exhausted_raises(r, key) ==
    [r EXCEPT !.qres[key] = [st |-> "failed"], !.pc = "raised", !.exc = "RetryError"]

\* Lines 103-106: run_query raised after its last attempt; df is an empty
\* frame and the key gets no rows.
query_exhausted(r, key) ==
    NextQuery([r EXCEPT !.results = Merge(@, key :> <<>>),
                        !.qres[key] = [st |-> "failed"]])

\* Lines 156-159: whatever the graph stage raised is logged; results is returned.
graph_failed(r) == [r EXCEPT !.pc = "returned", !.graph = "failed"]

OnlyExtract == UNCHANGED <<g, savedGraph, ret, synthVars, keyVars, corpusVars>>

XStart(p) ==
    /\ run[p].pc = "idle"
    /\ run' = [run EXCEPT ![p] = NewRun]
    /\ UNCHANGED <<snapFile, graphFile>>
    /\ OnlyExtract

\* Line 93: get_sf_connection()
XConnect(p) ==
    /\ run[p].pc = "connect"
    /\ run' = [run EXCEPT ![p].pc = "context"]
    /\ UNCHANGED <<snapFile, graphFile>>
    /\ OnlyExtract

XConnectFails(p) ==
    /\ run[p].pc = "connect"
    /\ run' = [run EXCEPT ![p].pc = "raised", ![p].exc = "ConnectError"]
    /\ UNCHANGED <<snapFile, graphFile>>
    /\ OnlyExtract

\* Line 97: apply_context(conn)
XContext(p) ==
    /\ run[p].pc = "context"
    /\ run' = [run EXCEPT ![p].pc = "query"]
    /\ UNCHANGED <<snapFile, graphFile>>
    /\ OnlyExtract

XContextFails(p) ==
    /\ run[p].pc = "context"
    /\ run' = [run EXCEPT ![p].pc = "raised", ![p].exc = "ContextError"]
    /\ UNCHANGED <<snapFile, graphFile>>
    /\ OnlyExtract

\* An attempt of run_query for the current key returns rows.
XQueryReturns(p) ==
    /\ run[p].pc = "query"
    /\ \E rows \in RowsFor(QueryKeys[run[p].qi]) :
          run' = [run EXCEPT ![p] = query_returned(run[p], QueryKeys[run[p].qi], rows)]
    /\ UNCHANGED <<snapFile, graphFile>>
    /\ OnlyExtract

\* An attempt of run_query raises: retried until the third has failed.
XQueryAttemptFails(p) ==
    /\ run[p].pc = "query"
    /\ run' = [run EXCEPT ![p] =
            IF run[p].att + 1 >= QueryAttempts
            THEN query_exhausted(run[p], QueryKeys[run[p].qi])
            ELSE [run[p] EXCEPT !.att = @ + 1]]
    /\ UNCHANGED <<snapFile, graphFile>>
    /\ OnlyExtract

\* Lines 109-110 and 146: makedirs and open(..., "w") truncate the file.
XOpen(p) ==
    /\ run[p].pc = "open"
    /\ snapFile' = [kind |-> "truncated", by |-> p]
    /\ run' = [run EXCEPT
            ![p].pc = "dump",
            ![p].clobbered = @ \/ (/\ run[p].phase = "early"
                                   /\ snapFile.kind = "json"
                                   /\ snapFile.by \in {1, 2} \ {p}
                                   /\ snapFile.phase = "final"
                                   /\ refresh[snapFile.by].pc = "done")]
    /\ UNCHANGED graphFile
    /\ OnlyExtract

XOpenFails(p) ==
    /\ run[p].pc = "open"
    /\ run' = [run EXCEPT ![p].pc = "raised", ![p].exc = "OSError"]
    /\ UNCHANGED <<snapFile, graphFile>>
    /\ OnlyExtract

\* A dump that writes nothing the second time.
XDump_early_only(p) ==
    /\ run[p].pc = "dump"
    /\ snapFile' = IF run[p].phase = "early"
                   THEN [kind |-> "json", data |-> run[p].results, by |-> p,
                         phase |-> run[p].phase]
                   ELSE snapFile
    /\ run' = [run EXCEPT
            ![p].pc = IF run[p].phase = "early" THEN "stats" ELSE "graph",
            ![p].att = 0,
            ![p].writes = @ + 1]
    /\ UNCHANGED graphFile
    /\ OnlyExtract

\* Lines 111 and 147: json.dump(results, f)
XDump(p) ==
    /\ run[p].pc = "dump"
    /\ IF Dumpable(run[p].results)
       THEN /\ snapFile' = [kind |-> "json", data |-> run[p].results, by |-> p,
                            phase |-> run[p].phase]
            /\ run' = [run EXCEPT
                    ![p].pc = IF run[p].phase = "early" THEN "stats" ELSE "graph",
                    ![p].att = 0,
                    ![p].writes = @ + 1]
       ELSE /\ run' = [run EXCEPT ![p].pc = "raised", ![p].exc = "TypeError"]
            /\ UNCHANGED snapFile
    /\ UNCHANGED graphFile
    /\ OnlyExtract

\* The write stops part way: the file stays cut short.
XDumpFails(p) ==
    /\ run[p].pc = "dump"
    /\ run' = [run EXCEPT ![p].pc = "raised", ![p].exc = "OSError"]
    /\ UNCHANGED <<snapFile, graphFile>>
    /\ OnlyExtract

\* Lines 132-140: the statistics query of the next sampled column returns.
XStatReturns(p) ==
    /\ run[p].pc = "stats"
    /\ run[p].si <= Len(StatTargets(run[p].results.columns))
    /\ \E c \in {StatTargets(run[p].results.columns)[run[p].si]} :
          run' = [run EXCEPT
                  ![p].stats = Append(@, StatEntry(c, StatRow)),
                  ![p].si = @ + 1,
                  ![p].att = 0]
    /\ UNCHANGED <<snapFile, graphFile>>
    /\ OnlyExtract

\* Lines 135-140: an attempt raises; after the third the column gets an
\* entry without values.
XStatAttemptFails(p) ==
    /\ run[p].pc = "stats"
    /\ run[p].si <= Len(StatTargets(run[p].results.columns))
    /\ \E c \in {StatTargets(run[p].results.columns)[run[p].si]} :
          run' = [run EXCEPT ![p] =
                  IF run[p].att + 1 >= QueryAttempts
                  THEN [run[p] EXCEPT
                           !.stats = Append(@, StatEntry(c, <<>>)),
                           !.si = @ + 1,
                           !.att = 0]
                  ELSE [run[p] EXCEPT !.att = @ + 1]]
    /\ UNCHANGED <<snapFile, graphFile>>
    /\ OnlyExtract

\* Line 141: results["column_stats"] = stats
XStatsDone(p) ==
    /\ run[p].pc = "stats"
    /\ run[p].si > Len(StatTargets(run[p].results.columns))
    /\ run' = [run EXCEPT
            ![p].results = Merge(@, "column_stats" :> run[p].stats),
            ![p].pc = "open",
            ![p].phase = "final"]
    /\ UNCHANGED <<snapFile, graphFile>>
    /\ OnlyExtract

\* Lines 142-143: something in the statistics block raises outside the
\* per-column try; results gets no column_stats.
XStatsRaises(p) ==
    /\ run[p].pc = "stats"
    /\ run' = [run EXCEPT ![p].pc = "open", ![p].phase = "final"]
    /\ UNCHANGED <<snapFile, graphFile>>
    /\ OnlyExtract

\* Lines 151-155: a fresh GraphDB, load_local, build_from_metadata,
\* save_local, upsert_to_neo4j, none of them raising.
XGraphBuilt(p) ==
    /\ run[p].pc = "graph"
    /\ LET G == build_from_metadata(load_local(EmptyGraph, graphFile),
                                    run[p].results.tables, run[p].results.columns)
       IN  graphFile' = save_local(G)
    /\ run' = [run EXCEPT ![p].pc = "returned", ![p].graph = "built"]
    /\ UNCHANGED snapFile
    /\ OnlyExtract

\* The graph stage raises: in GraphDB() (the file is as it was), in
\* save_local (as it was, or cut short) or in upsert_to_neo4j (saved).
XGraphFails(p) ==
    /\ run[p].pc = "graph"
    /\ LET G == build_from_metadata(load_local(EmptyGraph, graphFile),
                                    run[p].results.tables, run[p].results.columns)
       IN  graphFile' \in {graphFile, CorruptFile, save_local(G)}
    /\ run' = [run EXCEPT ![p] = graph_failed(run[p])]
    /\ UNCHANGED snapFile
    /\ OnlyExtract

\* A snapshot an earlier refresh left.
OldSnapshot ==
    [kind |-> "json", by |-> 0, phase |-> "final",
     data |-> [tables |-> <<>>, views |-> <<>>, columns |-> <<>>, query_history |-> <<>>,
               foreign_keys |-> <<>>, indexes |-> <<>>, column_stats |-> <<>>]]

InitExtract ==
    /\ g = EmptyGraph
    /\ graphFile \in {MissingFile, CorruptFile, save_local(SampleGraph)}
    /\ savedGraph = EmptyGraph
    /\ ret = [op |-> "init"]
    /\ SynthIdle
    /\ KeyIdle
    /\ run = [p \in {1, 2} |-> [pc |-> "idle"]]
    /\ snapFile \in {MissingFile, OldSnapshot}
    /\ CorpusIdle

\* One run of extract_metadata.
NextExtract ==
    \/ XStart(1)
    \/ XConnect(1)
    \/ XConnectFails(1)
    \/ XContext(1)
    \/ XContextFails(1)
    \/ XQueryReturns(1)
    \/ XQueryAttemptFails(1)
    \/ XOpen(1)
    \/ XOpenFails(1)
    \/ XDump(1)
    \/ XDumpFails(1)
    \/ XStatReturns(1)
    \/ XStatAttemptFails(1)
    \/ XStatsDone(1)
    \/ XStatsRaises(1)
    \/ XGraphBuilt(1)
    \/ XGraphFails(1)

SpecExtract == InitExtract /\ [][NextExtract]_vars

\* C10: a sub-query that fails after its retries gives its key no rows and
\* leaves the other keys with the rows their queries returned; the run goes
\* on through every sub-query and the snapshot writes and returns, also when
\* the graph stage fails; a run that raises does so for the connection, the
\* session context or a file write, never for a sub-query or the graph stage.
C10_SubQueryFailureIsIsolated ==
    \A p \in {1, 2} :
        /\ (run[p].pc = "returned") =>
              /\ \A key \in QueryKeySet :
                    /\ run[p].qres[key].st # "pending"
                    /\ run[p].results[key] =
                          IF run[p].qres[key].st = "failed" THEN <<>>
                          ELSE json_safe_records(run[p].qres[key].rows)
              /\ run[p].writes = 2
              /\ snapFile.kind = "json"
              /\ snapFile.data = run[p].results
        /\ (run[p].pc = "raised") =>
              run[p].exc \in {"ConnectError", "ContextError", "OSError"}

\* A run returned although a sub-query and the graph stage failed, with the
\* rows of a sub-query that succeeded.
C10_Witness ==
    \E p \in {1, 2} :
        /\ run[p].pc = "returned"
        /\ run[p].qres["tables"].st = "failed"
        /\ run[p].qres["columns"].st = "ok"
        /\ run[p].results["columns"] # <<>>
        /\ run[p].graph = "failed"

\* The early snapshot was written, with the primary results, before any
\* statistics query; the final one after the statistics phase, however that
\* phase ended; a run that returns has written its results last.
SnapshotWritesInOrder(p) ==
    /\ (run[p].pc = "stats") => (run[p].writes = 1)
    /\ (run[p].pc = "stats" /\ run[p].si = 1 /\ run[p].att = 0) =>
            (snapFile.kind = "json" /\ snapFile.data = run[p].results
                /\ snapFile.phase = "early")
    /\ (run[p].pc \in {"graph", "returned"}) => (run[p].writes = 2)
    /\ (run[p].pc = "returned") =>
            (snapFile.kind = "json" /\ snapFile.data = run[p].results
                /\ snapFile.phase = "final")

\* From the first write of the run on, the file holds a snapshot of the run.
SnapshotReadableAfterFirstWrite(p) ==
    (run[p].pc # "idle" /\ run[p].writes >= 1) =>
        (snapFile.kind = "json" /\ snapFile.by = p)

\* C11: a run that gets through the primary sub-queries writes the snapshot
\* with the primary results before the first statistics query and writes it
\* again after the statistics phase, also when that phase failed; a run that
\* returns has written what it returns last; and from the first write on the
\* file always holds a snapshot the run produced.
C11_SnapshotWrittenEarlyAndFinal ==
    \A p \in {1, 2} :
        SnapshotWritesInOrder(p) /\ SnapshotReadableAfterFirstWrite(p)

-----------------------------------------------------------------------------
(* metadata_extractor.save_metadata_docs: one document per row *)

\* str(v) inside an f-string: None gives the text None.
Str(v) == IF v = None THEN <<"N", "o", "n", "e">> ELSE v

\* row.get(key), None when the key is absent.
GetLower(row, key) == IF key \in DOMAIN row THEN row[key] ELSE None

TagTable == <<"t", "a", "b", "l", "e", ":", ":">>
TagColumn == <<"c", "o", "l", "u", "m", "n", ":", ":">>
TagColstats == <<"c", "o", "l", "s", "t", "a", "t", "s", ":", ":">>
TagQuery == <<"q", "u", "e", "r", "y", ":", ":">>

\* "{a}.{b}.{c}": the parts rendered and joined with dots.
RECURSIVE Dotted(_)
Dotted(parts) ==
    IF Len(parts) = 0 THEN <<>>
    ELSE IF Len(parts) = 1 THEN Str(parts[1])
    ELSE Str(parts[1]) \o Dot \o Dotted(Tail(parts))

\* Lines 171-175.
TableDoc(t) ==
    LET path == Dotted(<<GetOr(t, "database_name"), GetOr(t, "schema_name"),
                         GetOr(t, "table_name")>>)
    IN  [id |-> TagTable \o path,
         text |-> <<"T", "a", "b", "l", "e", " ">> \o path
                  \o <<" ", "h", "a", "s", " ", "r", "o", "w", "_", "c", "o", "u", "n", "t", "=">>
                  \o Str(GetOr(t, "row_count"))
                  \o <<" ", "c", "r", "e", "a", "t", "e", "d", "=">>
                  \o Str(GetOr(t, "created"))
                  \o <<" ", "l", "a", "s", "t", "_", "a", "l", "t", "e", "r", "e", "d", "=">>
                  \o Str(GetOr(t, "last_altered")),
         metadata |-> t]

\* Lines 178-185.
ColumnDoc(c) ==
    LET path == Dotted(<<GetOr(c, "database_name"), GetOr(c, "schema_name"),
                         GetOr(c, "table_name"), GetOr(c, "column_name")>>)
    IN  [id |-> TagColumn \o path,
         text |-> <<"C", "o", "l", "u", "m", "n", " ">> \o path
                  \o <<" ", "t", "y", "p", "e", "=">> \o Str(GetOr(c, "data_type"))
                  \o <<" ", "n", "u", "l", "l", "a", "b", "l", "e", "=">>
                  \o Str(GetOr(c, "is_nullable")),
         metadata |-> c]

\* The fields of a statistics row that go into the text, in the row's own
\* order: data_type, then the aggregates the query returned.
StatTextKeys == <<"data_type", "DISTINCT_COUNT">>

StatKeyName(k) ==
    CASE k = "data_type" -> <<"d", "a", "t", "a", "_", "t", "y", "p", "e">>
      [] k = "DISTINCT_COUNT" ->
            <<"D", "I", "S", "T", "I", "N", "C", "T", "_", "C", "O", "U", "N", "T">>

\* ", ".join(f"{k}={_json_safe(v)}" ...) over the fields from position i on.
RECURSIVE StatFields(_, _, _)
StatFields(row, i, first) ==
    IF i > Len(StatTextKeys) THEN <<>>
    ELSE LET k == StatTextKeys[i]
         IN  IF k \in DOMAIN row
             THEN (IF first THEN <<>> ELSE <<",", " ">>)
                  \o StatKeyName(k) \o <<"=">> \o Str(json_safe(row[k]))
                  \o StatFields(row, i + 1, FALSE)
             ELSE StatFields(row, i + 1, first)

\* Lines 188-193: the path fields are looked up by their lower-case names only.
StatDoc(row) ==
    LET path == Dotted(<<GetLower(row, "database_name"), GetLower(row, "schema_name"),
                         GetLower(row, "table_name"), GetLower(row, "column_name")>>)
    IN  [id |-> TagColstats \o path,
         text |-> <<"S", "t", "a", "t", "s", " ", "f", "o", "r", " ">> \o path
                  \o <<":", " ">> \o StatFields(row, 1, TRUE),
         metadata |-> row]

\* hash(text): equal for equal texts within one interpreter.
PyHash(text) == <<[hash |-> text]>>

\* Lines 196-199: the id is taken from the text, and the text from the
\* database, schema, status, elapsed time and query text of the row.
QueryDoc(q) ==
    LET text == <<"Q", "u", "e", "r", "y", " ", "o", "n", " ">>
                \o Dotted(<<GetOr(q, "database_name"), GetOr(q, "schema_name")>>)
                \o <<" ", "s", "t", "a", "t", "u", "s", "=">>
                \o Str(GetOr(q, "execution_status"))
                \o <<" ", "e", "l", "a", "p", "s", "e", "d", "_", "m", "s", "=">>
                \o Str(json_safe(GetOr(q, "total_elapsed_time")))
                \o <<" ", "t", "e", "x", "t", "=">>
                \o Str(GetOr(q, "query_text"))
    IN  [id |-> TagQuery \o PyHash(text), text |-> text, metadata |-> q]

\* metadata.get(key, [])
RowsOf(metadata, key) == IF key \in DOMAIN metadata THEN metadata[key] ELSE <<>>

\* A corpus in which the views get table documents too.
corpus_of_with_views(metadata) ==
    LET tables == RowsOf(metadata, "tables") \o RowsOf(metadata, "views")
        columns == RowsOf(metadata, "columns")
        stats == RowsOf(metadata, "column_stats")
        history == RowsOf(metadata, "query_history")
    IN  [i \in 1..Len(tables) |-> TableDoc(tables[i])]
        \o [i \in 1..Len(columns) |-> ColumnDoc(columns[i])]
        \o [i \in 1..Len(stats) |-> StatDoc(stats[i])]
        \o [i \in 1..Len(history) |-> QueryDoc(history[i])]

\* Lines 168-199: the documents in the order they are appended.
corpus_of(metadata) ==
    LET tables == RowsOf(metadata, "tables")
        columns == RowsOf(metadata, "columns")
        stats == RowsOf(metadata, "column_stats")
        history == RowsOf(metadata, "query_history")
    IN  [i \in 1..Len(tables) |-> TableDoc(tables[i])]
        \o [i \in 1..Len(columns) |-> ColumnDoc(columns[i])]
        \o [i \in 1..Len(stats) |-> StatDoc(stats[i])]
        \o [i \in 1..Len(history) |-> QueryDoc(history[i])]

\* save_metadata_docs(metadata): json.dump(docs, f) raises TypeError on a
\* Decimal or a datetime in a row; otherwise the documents are returned.
save_metadata_docs(metadata) ==
    LET docs == corpus_of(metadata)
    IN  IF \A i \in 1..Len(docs) : RowDumpable(docs[i].metadata)
        THEN [kind |-> "returned", docs |-> docs]
        ELSE [kind |-> "raised", exc |-> "TypeError"]

-----------------------------------------------------------------------------
(* rag_pipeline.upsert_docs_to_chroma and the Chroma collection *)

\* batch_size in upsert_docs_to_chroma
BatchSize == 100

IdsOf(docs) == [i \in 1..Len(docs) |-> docs[i].id]

UniqueIds(ids) == \A i, j \in 1..Len(ids) : (i # j) => (ids[i] # ids[j])

\* The text of the document with that id in a batch.
TextOf(batch, id) == batch[CHOOSE i \in 1..Len(batch) : batch[i].id = id].text

\* collection.upsert(ids, metadatas, documents): the ids of one call must be
\* unique (DuplicateIDError otherwise, nothing stored); an id the collection
\* holds gets the new text, any other id is added.
collection_upsert(ix, batch) ==
    IF ~UniqueIds(IdsOf(batch))
    THEN [kind |-> "raised", exc |-> "DuplicateIDError"]
    ELSE [kind |-> "stored",
          index |-> [k \in (DOMAIN ix) \cup {batch[i].id : i \in 1..Len(batch)} |->
                        IF \E i \in 1..Len(batch) : batch[i].id = k
                        THEN TextOf(batch, k)
                        ELSE ix[k]]]

\* The loop of lines 49-51 from offset i on; count is what it has added up.
RECURSIVE UpsertFrom(_, _, _, _)
UpsertFrom(ix, docs, i, count) ==
    IF i >= Len(docs) THEN [kind |-> "returned", index |-> ix, count |-> count]
    ELSE LET batch == SubSeq(docs, i + 1, Min(i + BatchSize, Len(docs)))
             r == collection_upsert(ix, batch)
         IN  IF r.kind = "raised"
             THEN [kind |-> "raised", index |-> ix, exc |-> r.exc]
             ELSE UpsertFrom(r.index, docs, i + BatchSize, count + Len(batch))

\* upsert_docs_to_chroma(docs) on a collection holding ix.
upsert_docs_to_chroma(ix, docs) == UpsertFrom(ix, docs, 0, 0)

MaxDocs == 2

\* Documents given to the index: two table rows of the same table with
\* different row counts, a column of it and a column statistic.
IndexDocs ==
    { TableDoc(TableRowLower), TableDoc(TableRowUpper), ColumnDoc(ColumnRowLower),
      StatDoc(StatEntry(ColumnRowLower, <<>>)) }

\* Every document of the list is recorded as the last one given for its id.
RECURSIVE NoteUpserted(_, _, _)
NoteUpserted(seen, docs, i) ==
    IF i > Len(docs) THEN seen
    ELSE NoteUpserted(Merge(seen, docs[i].id :> docs[i].text), docs, i + 1)

OnlyCorpus == UNCHANGED <<graphVars, synthVars, keyVars, extractVars>>

IUpsert ==
    \E docs \in SeqsUpTo(IndexDocs, MaxDocs) :
        LET r == upsert_docs_to_chroma(index, docs)
        IN  /\ index' = r.index
            /\ upserted' = NoteUpserted(upserted, docs, 1)
            /\ upRet' = [op |-> "upsert", docs |-> docs, kind |-> r.kind,
                         count |-> IF r.kind = "returned" THEN r.count ELSE 0,
                         before |-> Cardinality(DOMAIN index),
                         again |-> upRet.op = "upsert" /\ upRet.docs = docs]
            /\ UNCHANGED <<docsFile, docsRet, refresh>>
            /\ OnlyCorpus

InitIndex == InitGraph /\ SynthIdle /\ KeyIdle /\ ExtractIdle /\ CorpusIdle

NextIndex == IUpsert

SpecIndex == InitIndex /\ [][NextIndex]_vars

\* C12: after any upsert calls the index holds one entry for every id that
\* was given to a call, with the text the id was last given with; and a call
\* with the documents of the call before it leaves the size of the index as
\* that call left it.
C12_UpsertOverwritesById ==
    /\ DOMAIN index = DOMAIN upserted
    /\ \A id \in DOMAIN index : index[id] = upserted[id]
    /\ (upRet.op = "upsert" /\ upRet.again) =>
            (Cardinality(DOMAIN index) = upRet.before)

-----------------------------------------------------------------------------
(* save_metadata_docs on snapshots with rows that lack fields *)

MaxSnapRows == 2

\* Rows of a snapshot: as extraction leaves them (JSON-safe), some without
\* a schema, a name or any path field.
DocTableRows == TableRows \cup { [row_count |-> <<"3">>] }
DocColumnRows == ColumnRows \cup { [table_name |-> <<"T">>, data_type |-> None] }
DocStatRows ==
    { StatEntry(ColumnRowLower, StatRow), StatEntry(ColumnRowUpper, <<>>),
      StatEntry([table_name |-> <<"T">>, column_name |-> <<"C">>, data_type |-> <<"N">>], <<>>) }
DocQueryRows ==
    { [QUERY_TEXT |-> <<"q">>, START_TIME |-> <<"t">>],
      [query_text |-> <<"q">>, database_name |-> <<"A">>, schema_name |-> <<"B">>,
       execution_status |-> <<"S">>, total_elapsed_time |-> <<"5">>] }

\* The rows of views, foreign keys and indexes of a snapshot, when it has any.
OtherRows ==
    { [views |-> <<>>, foreign_keys |-> <<>>, indexes |-> <<>>],
      [views |-> <<[TABLE_NAME |-> <<"V">>]>>,
       foreign_keys |-> <<[CONSTRAINT_NAME |-> <<"F">>]>>,
       indexes |-> <<[INDEX_NAME |-> <<"X">>]>>] }

\* Snapshots with at most MaxSnapRows rows of the four documented kinds, with
\* and without the column_stats key.
DocSnapshots ==
    LET four == { q \in SeqsUpTo(DocTableRows, MaxSnapRows) \X SeqsUpTo(DocColumnRows, MaxSnapRows)
                        \X SeqsUpTo(DocStatRows, MaxSnapRows) \X SeqsUpTo(DocQueryRows, MaxSnapRows) :
                    Len(q[1]) + Len(q[2]) + Len(q[3]) + Len(q[4]) <= MaxSnapRows }
    IN  { Merge(o, [tables |-> q[1], columns |-> q[2], column_stats |-> q[3],
                    query_history |-> q[4]]) : q \in four, o \in OtherRows }
        \cup { Merge(o, [tables |-> q[1], columns |-> q[2], query_history |-> q[4]]) :
                 q \in {x \in four : x[3] = <<>>}, o \in OtherRows }

\* save_metadata_docs(md) on the snapshot drawn, the file written.
DSave ==
    /\ docsRet.op = "input"
    /\ LET r == save_metadata_docs(docsRet.metadata)
       IN  /\ docsRet' = [op |-> "docs", metadata |-> docsRet.metadata, kind |-> r.kind,
                          exc |-> IF r.kind = "raised" THEN r.exc ELSE "none",
                          docs |-> IF r.kind = "returned" THEN r.docs ELSE <<>>]
           /\ docsFile' = IF r.kind = "returned"
                          THEN [kind |-> "json", data |-> r.docs, by |-> 0]
                          ELSE CorruptFile
    /\ UNCHANGED <<index, upserted, upRet, refresh>>
    /\ OnlyCorpus

\* makedirs or open fails (the file is as it was) or the write stops after
\* open has truncated the file.
DSaveFails ==
    /\ docsRet.op = "input"
    /\ docsRet' = [op |-> "docs", metadata |-> docsRet.metadata, kind |-> "raised",
                   exc |-> "OSError", docs |-> <<>>]
    /\ docsFile' \in {docsFile, CorruptFile}
    /\ UNCHANGED <<index, upserted, upRet, refresh>>
    /\ OnlyCorpus

InitDocs ==
    /\ InitGraph
    /\ SynthIdle
    /\ KeyIdle
    /\ ExtractIdle
    /\ index = <<>>
    /\ upserted = <<>>
    /\ upRet = [op |-> "init"]
    /\ docsFile = MissingFile
    /\ docsRet \in {[op |-> "input", metadata |-> md] : md \in DocSnapshots}
    /\ refresh = [p \in {1, 2} |-> [pc |-> "idle"]]

NextDocs == DSave \/ DSaveFails

SpecDocs == InitDocs /\ [][NextDocs]_vars

\* A field of a row under either spelling of its name; None when the row
\* has it under neither or has it empty.
FieldOf(row, k) ==
    IF k \in DOMAIN row /\ row[k] # None /\ row[k] # <<>> THEN row[k]
    ELSE IF UpperKey(k) \in DOMAIN row /\ row[UpperKey(k)] # None /\ row[UpperKey(k)] # <<>>
         THEN row[UpperKey(k)]
    ELSE None

\* The dotted path of a row, an absent field giving the part None.
RECURSIVE PathOf(_, _)
PathOf(row, fields) ==
    LET part == IF FieldOf(row, fields[1]) = None THEN <<"N", "o", "n", "e">>
                ELSE FieldOf(row, fields[1])
    IN  IF Len(fields) = 1 THEN part
        ELSE part \o <<".">> \o PathOf(row, Tail(fields))

\* C13: save_metadata_docs does not raise for rows that lack fields (only
\* when the file cannot be written) and returns one document per row of
\* tables, columns, column_stats and query_history, in that order and no
\* other; the id of a table, column or statistics document is table::,
\* column:: or colstats:: followed by the dotted path of the row.
C13_OneDocumentPerRow ==
    (docsRet.op = "docs") =>
        LET md == docsRet.metadata
            docs == docsRet.docs
            nt == Len(RowsOf(md, "tables"))
            nc == Len(RowsOf(md, "columns"))
            ns == Len(RowsOf(md, "column_stats"))
            nq == Len(RowsOf(md, "query_history"))
        IN  /\ (docsRet.kind = "raised") => (docsRet.exc = "OSError")
            /\ (docsRet.kind = "returned") =>
                  /\ Len(docs) = nt + nc + ns + nq
                  /\ \A i \in 1..nt :
                        docs[i].id = <<"t", "a", "b", "l", "e", ":", ":">>
                            \o PathOf(md.tables[i], <<"database_name", "schema_name", "table_name">>)
                  /\ \A i \in 1..nc :
                        docs[nt + i].id = <<"c", "o", "l", "u", "m", "n", ":", ":">>
                            \o PathOf(md.columns[i],
                                  <<"database_name", "schema_name", "table_name", "column_name">>)
                  /\ \A i \in 1..ns :
                        docs[nt + nc + i].id = <<"c", "o", "l", "s", "t", "a", "t", "s", ":", ":">>
                            \o PathOf(md.column_stats[i],
                                  <<"database_name", "schema_name", "table_name", "column_name">>)
                  /\ \A i \in 1..nq : docs[nt + nc + ns + i].metadata = md.query_history[i]

\* Documents were built of a snapshot with a table row that has no schema,
\* a column row, and views that give no document.
C13_Witness ==
    /\ docsRet.op = "docs"
    /\ docsRet.kind = "returned"
    /\ RowsOf(docsRet.metadata, "views") # <<>>
    /\ Len(docsRet.docs) = 2
    /\ docsRet.metadata.tables = <<TableRowNoSchema>>
    /\ Len(docsRet.metadata.columns) = 1

-----------------------------------------------------------------------------
(* Context selection when the vector index cannot answer *)

\* C14: pick_context does not raise when the vector query fails or no
\* embedding function is configured: the call goes on with the graph search
\* results (or an empty list) as its context, so no call ends with the error
\* of the vector query.
C14_SelectNeverRaises ==
    \A c \in Callers :
        (call[c].pc = "done" /\ call[c].sel = 1 /\ call[c].out.kind = "raised") =>
            (call[c].out.exc # "QueryError")

-----------------------------------------------------------------------------
(* Two callers of generate_sql_and_insight at once: nothing orders the steps *)
(* of cached_call of one caller against those of the other.                  *)

\* An empty cache, no graph file, and a vector index that holds no document
\* or MaxHits of them.
InitRace ==
    /\ InitGraph
    /\ now = 0
    /\ cache = <<>>
    /\ vecHits \in {0, MaxHits}
    /\ call = IdleCallers
    /\ lastSet = 0
    /\ KeyIdle
    /\ ExtractIdle
    /\ CorpusIdle

NextRace ==
    \/ \E c \in Callers, q \in Questions : CallStart(c, q)
    \/ \E c \in Callers : CacheTest(c)
    \/ \E c \in Callers : CacheRead(c)
    \/ \E c \in Callers : SelectContext(c)
    \/ \E c \in Callers : VectorQueryFails(c)
    \/ \E c \in Callers : LlmReturns(c)
    \/ \E c \in Callers : LlmAttemptFails(c)
    \/ \E c \in Callers : CacheStore(c)
    \/ \E c \in Callers : CallReturn(c)

SpecRace == InitRace /\ [][NextRace]_vars

\* The caller is in _compute or has been through it.
InCompute(c) ==
    \/ call[c].pc \in {"select", "llm", "set"}
    \/ call[c].pc = "done" /\ call[c].sel = 1

\* The caller has returned the value its own generation call gave.
ReturnedOwn(c) ==
    /\ call[c].pc = "done"
    /\ call[c].gen = 1
    /\ call[c].out.kind = "returned"

\* C15: only a caller whose membership test missed computes, and once per
\* call; a caller that computed returns the value of its own computation;
\* when two callers of the same question have both computed and returned,
\* the entry holds the value of the one whose set ran last.
C15_RacingMissesBothCompute ==
    /\ \A c \in Callers :
          /\ InCompute(c) => (~call[c].valid /\ call[c].sel <= 1 /\ call[c].gen <= 1)
          /\ ReturnedOwn(c) =>
                (call[c].out.value =
                    compute_result(call[c].response, call[c].context_snippets).value)
    /\ (ReturnedOwn(1) /\ ReturnedOwn(2) /\ call[1].question = call[2].question) =>
          /\ lastSet \in Callers
          /\ cache[SynthKey(call[1].question)].value = call[lastSet].out.value

\* Both callers missed on the same question, both computed, they returned
\* different values and the entry holds the one set last.
C15_Witness ==
    /\ ReturnedOwn(1) /\ ReturnedOwn(2)
    /\ call[1].question = call[2].question
    /\ ~call[1].stale /\ ~call[2].stale
    /\ call[1].out.value # call[2].out.value
    /\ lastSet = 1
    /\ cache[SynthKey(call[1].question)].value = call[1].out.value

-----------------------------------------------------------------------------
(* refresh_metadata.run(), process p: extract_metadata, save_metadata_docs,  *)
(* the second write of the documents file, upsert_docs_to_chroma. Nothing    *)
(* keeps two processes from running it at once.                              *)

\* The process is between the start and the end of run().
Active(p) == refresh[p].pc \notin {"idle", "done", "raised"}

\* Line 12: run() starts with extract_metadata(). overlap records whether
\* the other process was in run() at any time during this one.
RStart(p) ==
    /\ ~Active(p)
    /\ run[p].pc \in {"idle", "returned", "raised"}
    /\ run' = [run EXCEPT ![p] = NewRun]
    /\ refresh' = [q \in {1, 2} |->
            IF q = p
            THEN [pc |-> "extract", docs |-> <<>>, overlap |-> Active(3 - p)]
            ELSE IF Active(q) THEN [refresh[q] EXCEPT !.overlap = TRUE]
            ELSE refresh[q]]
    /\ UNCHANGED <<snapFile, graphFile, index, upserted, upRet, docsFile, docsRet>>
    /\ UNCHANGED <<g, savedGraph, ret, synthVars, keyVars>>

OnlyRefresh == UNCHANGED <<graphVars, synthVars, keyVars, extractVars>>

\* extract_metadata raised: run() ends with the exception.
RExtractRaised(p) ==
    /\ refresh[p].pc = "extract"
    /\ run[p].pc = "raised"
    /\ refresh' = [refresh EXCEPT ![p].pc = "raised"]
    /\ UNCHANGED <<index, upserted, upRet, docsFile, docsRet>>
    /\ OnlyRefresh

\* Line 13, save_metadata_docs lines 168-203: the documents are built of
\* what extract_metadata returned and the documents file is opened for
\* writing, which truncates it.
RDocsOpen(p) ==
    /\ refresh[p].pc = "extract"
    /\ run[p].pc = "returned"
    /\ refresh' = [refresh EXCEPT ![p].pc = "docs_dump",
                                  ![p].docs = corpus_of(run[p].results)]
    /\ docsFile' = [kind |-> "truncated", by |-> p]
    /\ UNCHANGED <<index, upserted, upRet, docsRet>>
    /\ OnlyRefresh

\* save_metadata_docs line 204: json.dump(docs, f).
RDocsDump(p) ==
    /\ refresh[p].pc = "docs_dump"
    /\ LET r == save_metadata_docs(run[p].results)
       IN  IF r.kind = "returned"
           THEN /\ docsFile' = [kind |-> "json", data |-> r.docs, by |-> p]
                /\ refresh' = [refresh EXCEPT ![p].pc = "file_open"]
           ELSE /\ refresh' = [refresh EXCEPT ![p].pc = "raised"]
                /\ UNCHANGED docsFile
    /\ UNCHANGED <<index, upserted, upRet, docsRet>>
    /\ OnlyRefresh

\* run() lines 14-15: the documents file is opened for writing once more.
RFileOpen(p) ==
    /\ refresh[p].pc = "file_open"
    /\ docsFile' = [kind |-> "truncated", by |-> p]
    /\ refresh' = [refresh EXCEPT ![p].pc = "file_dump"]
    /\ UNCHANGED <<index, upserted, upRet, docsRet>>
    /\ OnlyRefresh

\* run() line 16: json.dump(docs, f).
RFileDump(p) ==
    /\ refresh[p].pc = "file_dump"
    /\ docsFile' = [kind |-> "json", data |-> refresh[p].docs, by |-> p]
    /\ refresh' = [refresh EXCEPT ![p].pc = "upsert"]
    /\ UNCHANGED <<index, upserted, upRet, docsRet>>
    /\ OnlyRefresh

\* run() lines 17-18: upsert_docs_to_chroma(docs) and the report.
RUpsert(p) ==
    /\ refresh[p].pc = "upsert"
    /\ LET r == upsert_docs_to_chroma(index, refresh[p].docs)
       IN  /\ index' = r.index
           /\ refresh' = [refresh EXCEPT
                   ![p].pc = IF r.kind = "returned" THEN "done" ELSE "raised"]
    /\ upserted' = NoteUpserted(upserted, refresh[p].docs, 1)
    /\ UNCHANGED <<upRet, docsFile, docsRet>>
    /\ OnlyRefresh

InitRefresh ==
    /\ InitGraph
    /\ SynthIdle
    /\ KeyIdle
    /\ ExtractIdle
    /\ CorpusIdle

\* Two processes; every warehouse query answers at its first attempt.
NextRefresh ==
    \E p \in {1, 2} :
        \/ RStart(p)
        \/ XConnect(p)
        \/ XConnectFails(p)
        \/ XContext(p)
        \/ XQueryReturns(p)
        \/ XOpen(p)
        \/ XDump(p)
        \/ XDumpFails(p)
        \/ XStatReturns(p)
        \/ XStatsDone(p)
        \/ XGraphBuilt(p)
        \/ RExtractRaised(p)
        \/ RDocsOpen(p)
        \/ RDocsDump(p)
        \/ RFileOpen(p)
        \/ RFileDump(p)
        \/ RUpsert(p)

SpecRefresh == InitRefresh /\ [][NextRefresh]_vars

\* The snapshot file and the documents file hold what the refresh of p made.
FilesDeriveFrom(p) ==
    /\ snapFile.kind = "json"
    /\ snapFile.by = p
    /\ snapFile.phase = "final"
    /\ snapFile.data = run[p].results
    /\ docsFile.kind = "json"
    /\ docsFile.by = p
    /\ docsFile.data = corpus_of(run[p].results)

\* C16: nothing excludes two refreshes from each other. A refresh during
\* which the other process was never inside run() leaves, when it completes,
\* the snapshot file and the documents file both made of its own extraction.
\* (That interleaved refreshes can leave the two files from different
\* refreshes, and an early snapshot over a completed refresh's final one, is
\* the reachable state C16_Witness.)
C16_SerializedRefreshIsConsistent ==
    [][\A p \in {1, 2} :
          (refresh[p].pc = "upsert" /\ refresh'[p].pc = "done" /\ ~refresh'[p].overlap)
              => FilesDeriveFrom(p)']_vars

\* Both refreshes have completed, the snapshot file is of one and the
\* documents file of the other, and the early snapshot of one of them had
\* replaced the final snapshot of a refresh that had completed.
C16_Witness ==
    /\ refresh[1].pc = "done"
    /\ refresh[2].pc = "done"
    /\ snapFile.kind = "json"
    /\ docsFile.kind = "json"
    /\ snapFile.by # docsFile.by
    /\ run[1].clobbered \/ run[2].clobbered

-----------------------------------------------------------------------------
(* One session: a question is asked or the metadata is extracted, one
   operation at a time *)

\* app.py calls generate_sql_and_insight for the question of the session.
SessionAsk ==
    /\ run[1].pc = "idle"
    /\ CallStart(1, <<"T">>)

\* The refresh of the session, once no question is being answered.
SessionExtract ==
    /\ call[1].pc = "idle"
    /\ XStart(1)

\* A step of the operation in progress: an external call returns or fails,
\* or the code between two of them runs.
SessionStep ==
    \/ CacheTest(1)
    \/ CacheRead(1)
    \/ SelectContext(1)
    \/ VectorQueryFails(1)
    \/ LlmReturns(1)
    \/ LlmAttemptFails(1)
    \/ CacheStore(1)
    \/ XConnect(1)
    \/ XConnectFails(1)
    \/ XContext(1)
    \/ XContextFails(1)
    \/ XQueryReturns(1)
    \/ XQueryAttemptFails(1)
    \/ XOpen(1)
    \/ XOpenFails(1)
    \/ XDump(1)
    \/ XDumpFails(1)
    \/ XStatReturns(1)
    \/ XStatAttemptFails(1)
    \/ XStatsDone(1)
    \/ XStatsRaises(1)
    \/ XGraphBuilt(1)
    \/ XGraphFails(1)

InitSession ==
    /\ InitGraph
    /\ now = 0
    /\ cache = <<>>
    /\ vecHits = MaxHits
    /\ call = IdleCallers
    /\ lastSet = 0
    /\ KeyIdle
    /\ ExtractIdle
    /\ CorpusIdle

\* The answer is taken before anything else is started.
SessionAnswered ==
    /\ run[1].pc = "idle"
    /\ CallReturn(1)

NextSession ==
    \/ SessionAsk
    \/ SessionExtract
    \/ SessionStep
    \/ SessionAnswered

\* Lines 150-157 when GraphDB() raises: the graph file is as it was.
XGraphUnopened(p) ==
    /\ run[p].pc = "graph"
    /\ run' = [run EXCEPT ![p] = graph_failed(run[p])]
    /\ UNCHANGED <<snapFile, graphFile>>
    /\ OnlyExtract

\* For each position of the operation in progress, steps that leave it; the
\* graph stage is stood for by the step that raises in GraphDB(), which can
\* be taken exactly when the stage can end.
SessionGoesOn ==
    \/ CacheTest(1)
    \/ CacheRead(1)
    \/ SelectContext(1)
    \/ LlmReturns(1)
    \/ LlmAttemptFails(1)
    \/ CacheStore(1)
    \/ XConnect(1)
    \/ XContext(1)
    \/ XQueryReturns(1)
    \/ XQueryAttemptFails(1)
    \/ XOpen(1)
    \/ XDump(1)
    \/ XStatReturns(1)
    \/ XStatAttemptFails(1)
    \/ XStatsDone(1)
    \/ XGraphUnopened(1)

\* The interpreter goes on with the operation in progress, and each external
\* call returns or fails: while the operation can go on, it does.
SpecSession == InitSession /\ [][NextSession]_vars /\ WF_vars(SessionGoesOn)

\* No attempt is pending once the cap of the retried call is reached.
AttemptsCapped ==
    /\ call[1].pc # "idle" =>
          /\ call[1].att <= LlmAttempts
          /\ call[1].pc = "llm" => call[1].att < LlmAttempts
    /\ run[1].pc \in {"query", "stats"} => run[1].att < QueryAttempts

\* A retried call that failed at every attempt has ended in failure: the
\* generation call raised out of the synthesizer, the warehouse query is
\* recorded as failed.
FailureSurfaced ==
    /\ (call[1].pc \notin {"idle", "test", "read", "select"}
          /\ call[1].att = LlmAttempts /\ call[1].response = "")
          => call[1].pc = "done" /\ call[1].out = [kind |-> "raised", exc |-> "RetryError"]
    /\ run[1].pc # "idle" =>
          \A i \in 1..Len(QueryKeys) :
              run[1].qres[QueryKeys[i]].st = "failed" => i < run[1].qi

Asking == call[1].pc \notin {"idle", "done"}

Extracting == run[1].pc \notin {"idle", "returned", "raised"}

\* C17: a retried external call is attempted at most three times and then
\* ends in failure, and an extraction or a synthesis that has started
\* returns or raises, provided each external call returns or fails.
C17_AttemptsBoundedAndOperationsEnd ==
    /\ [](AttemptsCapped /\ FailureSurfaced)
    /\ Asking ~> call[1].pc = "done"
    /\ Extracting ~> run[1].pc \in {"returned", "raised"}

\* An extraction has returned although a warehouse query failed at each of
\* its three attempts, after a question had been answered from a computed
\* result.
C17_Witness ==
    /\ run[1].pc = "returned"
    /\ \E k \in QueryKeySet : run[1].qres[k].st = "failed"
    /\ lastSet = 1

-----------------------------------------------------------------------------
(* cached_call between its membership test and its read *)

\* fn was called: _compute got as far as pick_context.
FnCalled(c) == call[c].sel > 0

\* What a finished cached_call returned: the value stored under the key, or
\* the value fn computed in this call.
ReturnedStoredOrComputed(c) ==
    (call[c].pc = "done" /\ call[c].out.kind = "returned") =>
        IF FnCalled(c)
        THEN call[c].out.value = call[c].value
        ELSE /\ call[c].valid
             /\ SynthKey(call[c].question) \in DOMAIN cache
             /\ call[c].out.value = cache[SynthKey(call[c].question)].value

\* C18: cached_call returns the stored value of an unexpired entry or the
\* value fn computed, and raises only when fn raised; it does not fail when
\* the entry expires between the membership test and the read.
C18_CachedCallRaisesOnlyWhenFnRaises ==
    /\ ReturnedStoredOrComputed(1)
    /\ (call[1].pc = "done" /\ call[1].out.kind = "raised") => FnCalled(1)

-----------------------------------------------------------------------------
(* The ids of one corpus: snapshots whose rows denote distinct entities *)

\* Tables whose quoted names hold a dot: table T of schema C in database
\* "A.B", and table T of schema "B.C" in database A; and a second table of A.B.
TableRowDotDb ==
    [database_name |-> <<"A", ".", "B">>, schema_name |-> <<"C">>, table_name |-> <<"T">>,
     row_count |-> <<"1">>]
TableRowDotSchema ==
    [database_name |-> <<"A">>, schema_name |-> <<"B", ".", "C">>, table_name |-> <<"T">>,
     row_count |-> <<"2">>]
TableRowOther ==
    [database_name |-> <<"A">>, schema_name |-> <<"B">>, table_name |-> <<"U">>,
     row_count |-> <<"3">>]

\* Column C of table "T.C" and column "C.C" of table T, both in A.B.
ColumnRowDotTable ==
    [database_name |-> <<"A">>, schema_name |-> <<"B">>, table_name |-> <<"T", ".", "C">>,
     column_name |-> <<"C">>, data_type |-> <<"N">>]
ColumnRowDotColumn ==
    [database_name |-> <<"A">>, schema_name |-> <<"B">>, table_name |-> <<"T">>,
     column_name |-> <<"C", ".", "C">>, data_type |-> <<"N">>]

\* Rows of the query history: the same statement run at two start times with
\* the same outcome, and another statement.
QueryRowAt(t) ==
    [query_text |-> <<"q">>, database_name |-> <<"A">>, schema_name |-> <<"B">>,
     execution_status |-> <<"S">>, total_elapsed_time |-> <<"5">>, start_time |-> t]
QueryRowOther ==
    [query_text |-> <<"r">>, database_name |-> <<"A">>, schema_name |-> <<"B">>,
     execution_status |-> <<"S">>, total_elapsed_time |-> <<"5">>, start_time |-> <<"1">>]

IdTableRows == {TableRowLower, TableRowUpper, TableRowOther, TableRowDotDb, TableRowDotSchema}
IdColumnRows == {ColumnRowLower, ColumnRowUpper, ColumnRowDotTable, ColumnRowDotColumn}
IdStatRows == {StatEntry(ColumnRowLower, <<>>), StatEntry(ColumnRowDotTable, <<>>)}
IdQueryRows == {QueryRowAt(<<"1">>), QueryRowAt(<<"2">>), QueryRowOther}

\* What a row names: its fields of the path, under either spelling.
EntityOf(row, fields) == [i \in 1..Len(fields) |-> GetOr(row, fields[i])]

TablePath == <<"database_name", "schema_name", "table_name">>
ColumnPath == <<"database_name", "schema_name", "table_name", "column_name">>

\* No two rows of a kind name the same entity; two query rows differ in a field.
DistinctRows(rows, fields) ==
    \A i, j \in 1..Len(rows) :
        (i # j) => EntityOf(rows[i], fields) # EntityOf(rows[j], fields)

DistinctEntities(md) ==
    /\ DistinctRows(md.tables, TablePath)
    /\ DistinctRows(md.columns, ColumnPath)
    /\ DistinctRows(md.column_stats, ColumnPath)
    /\ \A i, j \in 1..Len(md.query_history) :
          (i # j) => md.query_history[i] # md.query_history[j]

\* Snapshots of at most MaxSnapRows rows, as the information schema gives
\* them: every table, column and query of the account once.
IdSnapshots ==
    { md \in { [tables |-> q[1], columns |-> q[2], column_stats |-> q[3],
                query_history |-> q[4]] :
                  q \in { x \in SeqsUpTo(IdTableRows, MaxSnapRows)
                                  \X SeqsUpTo(IdColumnRows, MaxSnapRows)
                                  \X SeqsUpTo(IdStatRows, MaxSnapRows)
                                  \X SeqsUpTo(IdQueryRows, MaxSnapRows) :
                            Len(x[1]) + Len(x[2]) + Len(x[3]) + Len(x[4]) <= MaxSnapRows } } :
        DistinctEntities(md) }

\* refresh_metadata.run line 17: the corpus built of the snapshot is upserted.
DUpsert ==
    /\ docsRet.op = "docs"
    /\ docsRet.kind = "returned"
    /\ upRet.op = "init"
    /\ LET r == upsert_docs_to_chroma(index, docsRet.docs)
       IN  /\ index' = r.index
           /\ upserted' = NoteUpserted(upserted, docsRet.docs, 1)
           /\ upRet' = [op |-> "upsert", docs |-> docsRet.docs, kind |-> r.kind,
                        count |-> IF r.kind = "returned" THEN r.count ELSE 0,
                        before |-> Cardinality(DOMAIN index),
                        again |-> FALSE]
    /\ UNCHANGED <<docsFile, docsRet, refresh>>
    /\ OnlyCorpus

InitIds ==
    /\ InitGraph
    /\ SynthIdle
    /\ KeyIdle
    /\ ExtractIdle
    /\ index = <<>>
    /\ upserted = <<>>
    /\ upRet = [op |-> "init"]
    /\ docsFile = MissingFile
    /\ docsRet \in {[op |-> "input", metadata |-> md] : md \in IdSnapshots}
    /\ refresh = [p \in {1, 2} |-> [pc |-> "idle"]]

NextIds == DSave \/ DUpsert

SpecIds == InitIds /\ [][NextIds]_vars

\* The rows of the four documented kinds of a snapshot.
RowCount(md) ==
    Len(md.tables) + Len(md.columns) + Len(md.column_stats) + Len(md.query_history)

\* C19: the documents built of a snapshot whose rows denote distinct
\* entities have pairwise distinct ids, and upserting them into an empty
\* index leaves one entry per row.
C19_DistinctEntitiesGetDistinctIds ==
    /\ (docsRet.op = "docs" /\ docsRet.kind = "returned") =>
          UniqueIds(IdsOf(docsRet.docs))
    /\ (upRet.op = "upsert") =>
          /\ upRet.kind = "returned"
          /\ Cardinality(DOMAIN index) = RowCount(docsRet.metadata)

====
